---- MODULE Spec2Model ----
(***************************************************************************)
(* State-machine model of the AgentManager UI controller (src/script.js). *)
(* Every handler runs to completion on the browser's single thread, so    *)
(* one handler is one action; setTimeout callbacks are actions of their   *)
(* own.                                                                    *)
(*                                                                         *)
(* JavaScript strings that the code inspects character by character       *)
(* (toLowerCase, includes, trim) are sequences of one-character strings;  *)
(* strings the code only copies are TLA+ strings.                          *)
(***************************************************************************)
EXTENDS Integers, Sequences, FiniteSets, TLC

\* ------------------------------------------------------------------------
\* Bounds of the model
\* ------------------------------------------------------------------------
\* createAgent is disabled once the list holds this many records
MaxAgents == 6
\* Date.now() advances up to this abstract instant
MaxClock == 6
\* at most this many setTimeout callbacks are pending at once
MaxTimers == 2
\* at most this many toasts are created on one page
MaxToasts == 3
\* at most this many agent tips are shown on one page
MaxTips == 3

\* ------------------------------------------------------------------------
\* JavaScript values
\* ------------------------------------------------------------------------
\* the value `undefined` of a string-valued property or variable
UNDEF == "<undefined>"
\* the value `undefined` passed where a numeric id is expected
UndefinedId == -1
\* this.currentEditingAgent before populateConfigForm has ever run
NoEditingAgent == -2

UpperChars == <<"A","B","C","D","E","F","G","H","I","J","K","L","M",
                "N","O","P","Q","R","S","T","U","V","W","X","Y","Z">>
LowerChars == <<"a","b","c","d","e","f","g","h","i","j","k","l","m",
                "n","o","p","q","r","s","t","u","v","w","x","y","z">>

\* String.prototype.toLowerCase on one character
LowerChar(c) ==
    IF \E i \in 1..26 : UpperChars[i] = c
    THEN LowerChars[CHOOSE i \in 1..26 : UpperChars[i] = c]
    ELSE c

\* String.prototype.toLowerCase
toLowerCase(s) == [i \in 1..Len(s) |-> LowerChar(s[i])]

\* String.prototype.includes
includes(s, t) ==
    \E i \in 0..(Len(s) - Len(t)) : SubSeq(s, i + 1, i + Len(t)) = t

\* String.prototype.trim: strips leading and trailing white space
RECURSIVE trimStart(_)
trimStart(s) ==
    IF s # <<>> /\ Head(s) = " " THEN trimStart(Tail(s)) ELSE s
RECURSIVE trimEnd(_)
trimEnd(s) ==
    IF s # <<>> /\ s[Len(s)] = " " THEN trimEnd(SubSeq(s, 1, Len(s) - 1)) ELSE s
trim(s) == trimEnd(trimStart(s))

\* property read: a key the object does not have reads as undefined
Get(r, k) == IF k \in DOMAIN r THEN r[k] ELSE UNDEF

\* a || b for strings: the empty string is falsy
OrElse(a, b) == IF a = "" \/ a = UNDEF THEN b ELSE a

\* ------------------------------------------------------------------------
\* Literals of the program
\* ------------------------------------------------------------------------
sBizChat == <<"B","i","z","C","h","a","t">>
sLearningAgent == <<"L","e","a","r","n","i","n","g","A","g","e","n","t">>
sSampleAgent == <<"S","a","m","p","l","e","A","g","e","n","t">>
sCustomerSupportBot ==
    <<"C","u","s","t","o","m","e","r","S","u","p","p","o","r","t","B","o","t">>
sM365 == <<"M","3","6","5">>
sTeams == <<"T","e","a","m","s">>
sSystem == <<"S","y","s","t","e","m">>
sAITeam == <<"A","I"," ","T","e","a","m">>
sDevTeam == <<"D","e","v"," ","T","e","a","m">>
sSupportTeam == <<"S","u","p","p","o","r","t"," ","T","e","a","m">>
sActive == <<"A","c","t","i","v","e">>
sTesting == <<"T","e","s","t","i","n","g">>
sCurrentUser == <<"C","u","r","r","e","n","t"," ","U","s","e","r">>

\* The hard-coded sample list returned by loadAgents.  successRate and
\* responseTime are kept in tenths (96.5 is 965, 1.1 is 11).
SampleAgents == <<
    [id |-> 1, name |-> sBizChat, product |-> sM365, host |-> "BizChat",
     owner |-> sSystem, status |-> sActive, successRate |-> 965,
     responseTime |-> 11, lastActive |-> "2024-12-04",
     createdDate |-> "2024-11-15", interactions |-> 2847],
    [id |-> 2, name |-> sLearningAgent, product |-> sM365, host |-> "Outlook",
     owner |-> sAITeam, status |-> sActive, successRate |-> 928,
     responseTime |-> 13, lastActive |-> "2024-12-04",
     createdDate |-> "2024-11-20", interactions |-> 1653],
    [id |-> 3, name |-> sSampleAgent, product |-> sM365, host |-> "BizChat",
     owner |-> sDevTeam, status |-> sTesting, successRate |-> 892,
     responseTime |-> 15, lastActive |-> "2024-12-03",
     createdDate |-> "2024-11-25", interactions |-> 892],
    [id |-> 4, name |-> sCustomerSupportBot, product |-> sTeams,
     host |-> "BizChat", owner |-> sSupportTeam, status |-> sActive,
     successRate |-> 947, responseTime |-> 9, lastActive |-> "2024-12-04",
     createdDate |-> "2024-10-30", interactions |-> 4156] >>

\* ------------------------------------------------------------------------
\* JSON and localStorage
\* ------------------------------------------------------------------------
\* A stored text is either a literal, Lit(s), or the text of an array of
\* objects, ArrText(items), which is what JSON.stringify makes of the
\* agent list.
Lit(s) == [k |-> "lit", s |-> s]
ArrText(items) == [k |-> "arr", items |-> items]
\* what getItem returns for a key that is not stored
NullItem == [k |-> "null"]

\* properties whose value can be undefined: the value of the checked radio
\* button of a group in which nothing is checked
UndefinableKeys == {"highestRing", "agentType"}

\* JSON.stringify of one object: a property holding undefined is omitted
StringifyObject(r) ==
    [key \in {x \in DOMAIN r : ~(x \in UndefinableKeys /\ r[x] = UNDEF)}
        |-> r[key]]

\* JSON.stringify(this.agents)
JSONstringify(list) ==
    ArrText([i \in 1..Len(list) |-> StringifyObject(list[i])])

\* JSON.parse: [ok |-> FALSE] is a SyntaxError; otherwise the type of the
\* value and, for an array, its elements
JSONparse(text) ==
    IF text.k = "arr" THEN [ok |-> TRUE, type |-> "array", items |-> text.items]
    ELSE IF text.s = "null" THEN [ok |-> TRUE, type |-> "null", items |-> <<>>]
    ELSE IF text.s = "42" THEN [ok |-> TRUE, type |-> "number", items |-> <<>>]
    ELSE IF text.s = "{}" THEN [ok |-> TRUE, type |-> "object", items |-> <<>>]
    ELSE IF text.s = "true" THEN [ok |-> TRUE, type |-> "boolean", items |-> <<>>]
    ELSE [ok |-> FALSE, type |-> "none", items |-> <<>>]

\* truthiness of what getItem returned: null and '' are falsy
Truthy(item) == item # NullItem /\ item # Lit("")

\* ------------------------------------------------------------------------
\* State
\* ------------------------------------------------------------------------
VARIABLES
    storage,             \* localStorage: a function from the stored keys to texts
    storageAccess,       \* "ok"; "full": setItem throws; "denied": every call throws
    domViews,            \* the views whose panel element '<view>-view' exists
    manager,             \* "unloaded", "ready" (agentManager bound) or "crashed"
    agents,              \* this.agents
    currentView,         \* this.currentView
    isFirstVisit,        \* this.isFirstVisit
    currentEditingAgent, \* id of this.currentEditingAgent
    now,                 \* the clock read by Date.now()
    form,                \* the inputs of the create form (.agent-form)
    configForm,          \* the inputs of the configuration form
    searchInput,         \* value of .search-input
    filterSelect,        \* value of .filter-select
    table,               \* content of #agents-table-body
    noAgentsDisplay,     \* style.display of #no-agents-state
    agentsDisplay,       \* style.display of #agents-state
    activeNav,           \* nav links carrying class 'active'
    activePanels,        \* view panels carrying class 'active'
    pageTitle,           \* text of #page-title
    activeStep,          \* lifecycle steps carrying class 'active'
    onboardingActive,    \* #onboarding-overlay carries class 'active'
    guidanceShown,       \* step whose guidance tooltip is displayed, or "none"
    timers,              \* pending setTimeout callbacks, oldest first
    toastContainers,     \* number of elements with id 'toast-container'
    toasts,              \* the toasts in the container, in document order
    toastSeq,            \* number of toasts created since the page was loaded
    agentTip,            \* the element .agent-tip: its class, its text, its tip
    testAgent,           \* value of #test-agent
    manifestCode,        \* the manifest shown in #manifest-code
    configManifestCode,  \* the manifest shown in #config-manifest-code
    last                 \* what the handler that ran last did

vars == <<storage, storageAccess, domViews, manager, agents, currentView,
          isFirstVisit, currentEditingAgent, now, form, configForm,
          searchInput, filterSelect, table, noAgentsDisplay, agentsDisplay,
          activeNav, activePanels, pageTitle, activeStep, onboardingActive,
          guidanceShown, timers, toastContainers, toasts, toastSeq, agentTip,
          testAgent, manifestCode, configManifestCode, last>>

\* the parts of the state each group of handlers leaves alone
envVars == <<storageAccess, domViews>>
filterVars == <<searchInput, filterSelect>>
viewVars == <<currentView, activeNav, activePanels, pageTitle>>
panelVars == <<noAgentsDisplay, agentsDisplay>>
onboardVars == <<isFirstVisit, onboardingActive, guidanceShown>>
toastVars == <<toastContainers, toasts, toastSeq, agentTip>>
manifestVars == <<manifestCode, configManifestCode>>

\* document.querySelector('.agent-tip') is null until the first tip is shown
NoTip == [active |-> FALSE, text |-> "", seq |-> 0]

\* ------------------------------------------------------------------------
\* localStorage
\* ------------------------------------------------------------------------
\* localStorage.setItem throws: QuotaExceededError when the store is full
setItemThrows == storageAccess # "ok"

\* localStorage.getItem(key), when it does not throw
getItem(key) == IF key \in DOMAIN storage THEN storage[key] ELSE NullItem

\* the store after a successful localStorage.setItem(key, text)
setItem(st, key, text) ==
    [x \in DOMAIN st \cup {key} |-> IF x = key THEN text ELSE st[x]]

\* the storage texts a page load can find under 'agents' that no run of this
\* program wrote
MalformedTexts == {Lit(""), Lit("{bad"), Lit("null"), Lit("42"), Lit("{}")}

\* the record of a handler run
Did(op, threw, alert, rendered, logged) ==
    [op |-> op, threw |-> threw, alert |-> alert, rendered |-> rendered,
     logged |-> logged]

\* ------------------------------------------------------------------------
\* loadAgents (lines 41-106)
\* ------------------------------------------------------------------------
\* The result of the call: the value returned, whether an exception left the
\* function, whether console.error ran, and the store afterwards.  getItem
\* and JSON.parse both run inside the try block.
loadAgentsRethrows ==
    LET getThrows == storageAccess = "denied"
        stored == getItem("agents")
        parseAttempted == ~getThrows /\ Truthy(stored)
        raised == getThrows \/ (parseAttempted /\ ~JSONparse(stored).ok)
    IN  IF parseAttempted /\ JSONparse(stored).ok
        THEN [threw |-> FALSE, type |-> JSONparse(stored).type,
              items |-> JSONparse(stored).items, logged |-> FALSE,
              storage |-> storage]
        ELSE [threw |-> raised, type |-> "array", items |-> SampleAgents,
              logged |-> raised, storage |-> storage]

loadAgents ==
    LET getThrows == storageAccess = "denied"
        stored == getItem("agents")
        parseAttempted == ~getThrows /\ Truthy(stored)
        raised == getThrows \/ (parseAttempted /\ ~JSONparse(stored).ok)
        caught == raised
    IN  IF parseAttempted /\ JSONparse(stored).ok
        THEN [threw |-> FALSE, type |-> JSONparse(stored).type,
              items |-> JSONparse(stored).items, logged |-> FALSE,
              storage |-> storage]
        ELSE [threw |-> raised /\ ~caught, type |-> "array",
              items |-> SampleAgents, logged |-> caught, storage |-> storage]

\* checkFirstVisit (lines 2371-2373), when getItem does not throw
checkFirstVisit == getItem("hasVisited") = NullItem

\* ------------------------------------------------------------------------
\* Rendering
\* ------------------------------------------------------------------------
\* formatDate (lines 2292-2295): the locale's rendering of the date
formatDate(dateString) == [localeDate |-> dateString]

\* one <tr> of the agents table (lines 828-854, 1282-1308)
Row(agent) ==
    [id |-> agent.id, name |-> agent.name, product |-> agent.product,
     statusClass |-> toLowerCase(agent.status), status |-> agent.status,
     successRate |-> agent.successRate,
     lastActive |-> formatDate(agent.lastActive)]

\* renderAgentsTable (lines 823-856): one row per agent, in list order
renderAgentsTable(list) ==
    [rows |-> [i \in 1..Len(list) |-> Row(list[i])], noResults |-> FALSE]

\* renderFilteredAgents (lines 1261-1310): the placeholder row when the list
\* is empty
renderFilteredAgents(list) ==
    IF Len(list) = 0
    THEN [rows |-> <<>>, noResults |-> TRUE]
    ELSE [rows |-> [i \in 1..Len(list) |-> Row(list[i])], noResults |-> FALSE]

checkAgentsStateNeverHides(list) ==
    IF Len(list) = 0 THEN <<"block", "none">> ELSE <<"block", "block">>

\* checkAgentsState (lines 807-818): <<display of #no-agents-state,
\* display of #agents-state>>
checkAgentsState(list) ==
    IF Len(list) = 0 THEN <<"block", "none">> ELSE <<"none", "block">>

\* ------------------------------------------------------------------------
\* Forms
\* ------------------------------------------------------------------------
\* the create form after form.reset(): text inputs empty, no radio checked
EmptyForm ==
    [shortName |-> <<>>, fullName |-> "", agentVersion |-> "",
     branchName |-> "", description |-> "", appStoreDescription |-> "",
     deploymentDate |-> "", isHeadless |-> FALSE, agentId |-> "",
     websiteUrl |-> "", privacyUrl |-> "", termsUrl |-> "",
     applicationId |-> "", titleId |-> "", developer |-> "",
     highestRing |-> UNDEF, agentType |-> UNDEF, plugins |-> <<>>,
     compliantAgentName |-> <<>>, systemPrompt |-> ""]

EmptyConfigForm ==
    [shortName |-> <<>>, fullName |-> "", agentVersion |-> "",
     branchName |-> "", description |-> "", deploymentDate |-> ""]

\* ------------------------------------------------------------------------
\* Manifest preview (lines 861-926, 944-1013)
\* ------------------------------------------------------------------------
sEAgent == <<"E","A","g","e","n","t">>
sEmailAgent == <<"E","m","a","i","l","A","g","e","n","t">>

\* the content of a manifest editor before its first refresh
NoManifest == [x \in {} |-> ""]

\* the value of patches[0].value: one empty object per selected plugin
PluginsObject(selected) == {selected[i] : i \in 1..Len(selected)}

\* the object literal of lines 884-903
ManifestLiteral(shortName, fullName, agentVersion, branchName, description, deploymentDate, selectedRing, agentType, selectedPlugins) ==
    [version |-> agentVersion,
     name |-> shortName,
     display_name |-> fullName,
     description |-> description,
     branch |-> branchName,
     deployment_target |-> deploymentDate,
     highest_allowed_ring |-> selectedRing,
     agent_type |-> agentType,
     parent_agent |-> [name |-> "BaseChatAgent"],
     patches |-> <<[op |-> "add", path |-> "/chat/orchestration/plugins",
                    value |-> PluginsObject(selectedPlugins)]>>]

\* the keys of the literal that hold a string
StringKeys ==
    {"version", "display_name", "description", "branch", "deployment_target",
     "highest_allowed_ring", "agent_type"}

RemoveNoFields(m) == m

\* 'Remove empty fields' (lines 906-910): delete the keys holding '' or null
RemoveEmptyFields(m) ==
    LET kept == {k \in DOMAIN m :
                    /\ k \in StringKeys => m[k] # ""
                    /\ k = "name" => m[k] # <<>>}
    IN  [k \in kept |-> m[k]]

\* shortName || 'EAgent' on the text of the short-name input
NameOrElse(a, b) == IF a = <<>> THEN b ELSE a

\* updateManifest (lines 861-926) on the inputs of the create form
updateManifest(f) ==
    RemoveEmptyFields(
      ManifestLiteral(NameOrElse(f.shortName, sEAgent),
                      OrElse(f.fullName, "EmailAgent"),
                      OrElse(f.agentVersion, "1.0.0"),
                      OrElse(f.branchName, "main"),
                      OrElse(f.description, ""),
                      OrElse(f.deploymentDate, ""),
                      OrElse(f.highestRing, "DEV"),
                      OrElse(f.agentType, "1P"),
                      f.plugins))

\* updateConfigManifest (lines 944-1013) on the inputs of the configuration
\* form; its radio groups and its plugin list are left as the page has them
updateConfigManifest(c) ==
    RemoveEmptyFields(
      ManifestLiteral(NameOrElse(c.shortName, sEmailAgent),
                      OrElse(c.fullName, "Email Assistant"),
                      OrElse(c.agentVersion, "1.0.0"),
                      OrElse(c.branchName, "main"),
                      OrElse(c.description, ""),
                      OrElse(c.deploymentDate, ""),
                      OrElse(Get(c, "highestRing"), "DEV"),
                      OrElse(Get(c, "agentType"), "1P"),
                      <<>>))

\* ------------------------------------------------------------------------
\* Timers
\* ------------------------------------------------------------------------
Timer(kind, delay, arg) == [kind |-> kind, delay |-> delay, arg |-> arg]

\* A pending callback may run when no callback registered before it has a
\* delay that is not longer.
CanFire(i) ==
    /\ i \in 1..Len(timers)
    /\ \A j \in 1..(i - 1) : timers[j].delay > timers[i].delay

RemoveAt(s, i) == SubSeq(s, 1, i - 1) \o SubSeq(s, i + 1, Len(s))

\* ------------------------------------------------------------------------
\* Initial state: the page before DOMContentLoaded
\* ------------------------------------------------------------------------
BaseViews == {"dashboard", "create", "configure", "metrics", "tprompt"}
NavViews == {"dashboard", "create", "metrics", "tprompt"}

Unloaded ==
    /\ manager = "unloaded"
    /\ agents = <<>>
    /\ currentView = "dashboard"
    /\ isFirstVisit = FALSE
    /\ currentEditingAgent = NoEditingAgent
    /\ form = EmptyForm
    /\ configForm = EmptyConfigForm
    /\ searchInput = <<>>
    /\ filterSelect = <<>>
    /\ table = [rows |-> <<>>, noResults |-> FALSE]
    /\ noAgentsDisplay = "block"
    /\ agentsDisplay = "none"
    /\ activeNav = {"dashboard"}
    /\ activePanels = {"dashboard"}
    /\ pageTitle = "Agent Dashboard"
    /\ activeStep = {}
    /\ onboardingActive = FALSE
    /\ guidanceShown = "none"
    /\ timers = <<>>
    /\ toastContainers = 0
    /\ toasts = <<>>
    /\ toastSeq = 0
    /\ agentTip = NoTip
    /\ testAgent = <<>>
    /\ manifestCode = NoManifest
    /\ configManifestCode = NoManifest

Init ==
    /\ storageAccess \in {"ok", "full", "denied"}
    /\ domViews \in {BaseViews, BaseViews \cup {"playground"}}
    /\ storage \in {[x \in {} |-> NullItem]}
                     \cup {[x \in {"agents"} |-> t] : t \in MalformedTexts}
    /\ storageAccess # "ok" => storage = [x \in {} |-> NullItem]
    /\ now = 5
    /\ Unloaded
    /\ last = Did("none", FALSE, "", FALSE, FALSE)

\* ------------------------------------------------------------------------
\* switchView (lines 201-252)
\* ------------------------------------------------------------------------
\* titles[view] || 'Dashboard' (lines 234-241)
TitleOf(view) ==
    CASE view = "dashboard" -> "Agent Dashboard"
      [] view = "create" -> "Create New Agent"
      [] view = "configure" -> "Configure Agent"
      [] view = "metrics" -> "Performance Metrics"
      [] view = "tprompt" -> "Evaluate Agent"
      [] OTHER -> "Dashboard"

switchViewKeepsPanels(view) ==
    LET nav == IF view # "configure" /\ view \in NavViews THEN {view} ELSE {}
    IN  IF view \in domViews
        THEN [threw |-> FALSE, nav |-> nav, panels |-> activePanels \cup {view},
              title |-> TitleOf(view), view |-> view]
        ELSE [threw |-> TRUE, nav |-> nav, panels |-> {},
              title |-> pageTitle, view |-> currentView]

switchViewAtomic(view) ==
    LET nav == IF view # "configure" /\ view \in NavViews THEN {view} ELSE {}
    IN  IF view \in domViews
        THEN [threw |-> FALSE, nav |-> nav, panels |-> {view},
              title |-> TitleOf(view), view |-> view]
        ELSE [threw |-> TRUE, nav |-> activeNav, panels |-> activePanels,
              title |-> pageTitle, view |-> currentView]

\* The effect of switchView(view) on the navigation state.  Every nav link
\* and every panel loses 'active' first; getElementById(view + '-view') is
\* null for a view without panel and the call throws there, before the
\* title and this.currentView are written.
switchView(view) ==
    LET nav == IF view # "configure" /\ view \in NavViews THEN {view} ELSE {}
    IN  IF view \in domViews
        THEN [threw |-> FALSE, nav |-> nav, panels |-> {view},
              title |-> TitleOf(view), view |-> view]
        ELSE [threw |-> TRUE, nav |-> nav, panels |-> {},
              title |-> pageTitle, view |-> currentView]

\* the assignment of a switchView result to the navigation state
ApplyView(sv) ==
    /\ activeNav' = sv.nav
    /\ activePanels' = sv.panels
    /\ pageTitle' = sv.title
    /\ currentView' = sv.view

\* a click on a navigation link (lines 124-130)
NavClick(view) ==
    /\ manager = "ready"
    /\ ApplyView(switchView(view))
    /\ last' = Did("switchView", switchView(view).threw, "", FALSE, FALSE)
    /\ UNCHANGED <<storage, envVars, manager, agents, onboardVars, now, form,
                   filterVars, table, panelVars, timers, activeStep,
                   currentEditingAgent, configForm>>
    /\ UNCHANGED toastVars
    /\ UNCHANGED testAgent
    /\ UNCHANGED manifestVars

\* ------------------------------------------------------------------------
\* Page load: new AgentManager() (lines 7-36, 2797-2800)
\* ------------------------------------------------------------------------
\* The constructor throws in checkFirstVisit when localStorage is denied and
\* in renderAgentsTable when this.agents is not an array (null.map, 42.map).
\* agentManager is then never bound and the inline handlers have no target.
Construct ==
    /\ manager = "unloaded"
    /\ LET L == loadAgents
           isArray == L.type = "array"
           crash == L.threw \/ storageAccess = "denied" \/ ~isArray
           list == IF isArray THEN L.items ELSE <<>>
           first == checkFirstVisit
       IN  /\ agents' = list
           /\ storage' = L.storage
           /\ IF crash
              THEN /\ manager' = "crashed"
                   /\ last' = Did("constructor", TRUE, "", FALSE, L.logged)
                   /\ UNCHANGED <<isFirstVisit, table, panelVars, timers,
                                  manifestVars>>
              ELSE /\ manager' = "ready"
                   /\ isFirstVisit' = first
                   /\ table' = renderAgentsTable(list)
                   /\ noAgentsDisplay' = checkAgentsState(list)[1]
                   /\ agentsDisplay' = checkAgentsState(list)[2]
                   /\ manifestCode' = updateManifest(form)
                   /\ configManifestCode' = updateConfigManifest(configForm)
                   /\ timers' = IF first
                                THEN <<Timer("showOnboarding", 1000, "")>>
                                ELSE <<>>
                   /\ last' = Did("constructor", FALSE, "", TRUE, L.logged)
    /\ UNCHANGED <<envVars, viewVars, currentEditingAgent, now, form,
                   configForm, filterVars, activeStep, onboardingActive,
                   guidanceShown>>
    /\ UNCHANGED toastVars
    /\ UNCHANGED testAgent

\* The user reloads the page: the in-memory state is gone, localStorage stays.
Reload ==
    /\ manager # "unloaded"
    /\ manager' = "unloaded"
    /\ agents' = <<>>
    /\ currentView' = "dashboard"
    /\ isFirstVisit' = FALSE
    /\ currentEditingAgent' = NoEditingAgent
    /\ form' = EmptyForm
    /\ configForm' = EmptyConfigForm
    /\ searchInput' = <<>>
    /\ filterSelect' = <<>>
    /\ table' = [rows |-> <<>>, noResults |-> FALSE]
    /\ noAgentsDisplay' = "block"
    /\ agentsDisplay' = "none"
    /\ activeNav' = {"dashboard"}
    /\ activePanels' = {"dashboard"}
    /\ pageTitle' = "Agent Dashboard"
    /\ activeStep' = {}
    /\ onboardingActive' = FALSE
    /\ guidanceShown' = "none"
    /\ timers' = <<>>
    /\ toastContainers' = 0
    /\ toasts' = <<>>
    /\ toastSeq' = 0
    /\ agentTip' = NoTip
    /\ testAgent' = <<>>
    /\ manifestCode' = NoManifest
    /\ configManifestCode' = NoManifest
    /\ last' = Did("reload", FALSE, "", FALSE, FALSE)
    /\ UNCHANGED <<envVars, storage, now>>

\* time passes
Tick ==
    /\ now < MaxClock
    /\ now' = now + 1
    /\ UNCHANGED <<storage, envVars, manager, agents, viewVars, isFirstVisit,
                   currentEditingAgent, form, configForm, filterVars, table,
                   panelVars, activeStep, onboardingActive, guidanceShown,
                   timers, last>>
    /\ UNCHANGED toastVars
    /\ UNCHANGED testAgent
    /\ UNCHANGED manifestVars

\* ------------------------------------------------------------------------
\* Inputs of the handlers
\* ------------------------------------------------------------------------
sQa == <<"Q","a">>
sQb == <<"Q","b">>
\* what the user types into the create form and the configuration form
FormInputs ==
    {<<"shortName", <<>>>>, <<"shortName", sQa>>,
     <<"fullName", "">>, <<"fullName", "QA Agent">>}
ConfigInputs == {<<"shortName", sQb>>, <<"fullName", "Renamed">>}
\* new Date().toISOString().split('T')[0]: every instant of the model falls
\* on the same day
ISODate(t) == "2025-06-01"

\* Array.prototype.findIndex / find on the id: the first match, 0 when none
FindIndex(list, id) ==
    IF \E i \in 1..Len(list) : list[i].id = id
    THEN CHOOSE i \in 1..Len(list) :
            /\ list[i].id = id
            /\ \A j \in 1..(i - 1) : list[j].id # id
    ELSE 0

\* { ...a, ...b }: the properties of b override those of a
Spread(a, b) ==
    [key \in DOMAIN a \cup DOMAIN b |-> IF key \in DOMAIN b THEN b[key] ELSE a[key]]

RequiredFieldsAlert == "Please fill in the required fields (Short Name and Full Name)"
ConfigRequiredAlert == "Please fill in the required fields (Agent Name and Display Name)"
MissingShortNameAlert == "Please fill in the required fields (Short Name)"
MissingFullNameAlert == "Please fill in the required fields (Full Name)"
CreatedAlert == "Agent created successfully!"
UpdatedAlert == "Agent configuration updated successfully!"
DeployedAlert == "${agent.name} deployed successfully!"

\* ------------------------------------------------------------------------
\* The create form
\* ------------------------------------------------------------------------
\* an input event on a field of the create form (lines 141-156); the
\* listener refreshes the manifest preview
InputForm(field, v) ==
    /\ manager = "ready"
    /\ form' = [form EXCEPT ![field] = v]
    /\ form' # form
    /\ manifestCode' = updateManifest(form')
    /\ UNCHANGED configManifestCode
    /\ last' = Did("input", FALSE, "", FALSE, FALSE)
    /\ UNCHANGED <<storage, envVars, manager, agents, viewVars, onboardVars,
                   currentEditingAgent, now, configForm, filterVars, table,
                   panelVars, activeStep, timers>>
    /\ UNCHANGED toastVars
    /\ UNCHANGED testAgent

unshift(list, agent) == <<agent>> \o list

pushUnlessIdTaken(list, agent) ==
    IF \E i \in 1..Len(list) : list[i].id = agent.id THEN list ELSE Append(list, agent)

\* this.agents.push(newAgent): no look-up of the id precedes it (line 1161)
push(list, agent) == Append(list, agent)

\* the record createAgent builds from the form (lines 1129-1159)
NewAgent(f, t) ==
    [id |-> t,
     name |-> f.shortName,
     fullName |-> f.fullName,
     version |-> OrElse(f.agentVersion, "1.0.0"),
     branch |-> OrElse(f.branchName, "main"),
     description |-> OrElse(f.description,
                            OrElse(f.appStoreDescription, "No description provided")),
     product |-> sM365,
     host |-> "BizChat",
     owner |-> sCurrentUser,
     status |-> sTesting,
     successRate |-> 0,
     responseTime |-> 0,
     lastActive |-> ISODate(t),
     createdDate |-> ISODate(t),
     interactions |-> 0,
     deploymentDate |-> f.deploymentDate,
     isHeadless |-> f.isHeadless,
     agentId |-> f.agentId,
     websiteUrl |-> f.websiteUrl,
     privacyUrl |-> f.privacyUrl,
     termsUrl |-> f.termsUrl,
     highestRing |-> f.highestRing,
     agentType |-> f.agentType,
     selectedRings |-> IF f.highestRing = UNDEF THEN <<>> ELSE <<f.highestRing>>,
     applicationId |-> f.applicationId,
     titleId |-> f.titleId,
     developer |-> f.developer,
     plugins |-> f.plugins]

CreateBlockedShortNameOnly(f) == f.shortName = <<>>

\* !shortName || !fullName (line 1124)
CreateBlocked(f) == f.shortName = <<>> \/ f.fullName = ""

BlockedAlertMissingOnly(f) ==
    IF f.shortName = <<>> /\ f.fullName = "" THEN RequiredFieldsAlert
    ELSE IF f.shortName = <<>> THEN MissingShortNameAlert
    ELSE MissingFullNameAlert

\* the alert of a blocked createAgent (line 1125): one fixed text
BlockedAlert(f) == RequiredFieldsAlert

saveAgentsKeepsFirstFour(list) ==
    IF setItemThrows
    THEN [threw |-> FALSE, logged |-> TRUE, storage |-> storage]
    ELSE [threw |-> FALSE, logged |-> FALSE,
          storage |-> setItem(storage, "agents",
                              JSONstringify(SubSeq(list, 1, 4)))]

\* saveAgents (lines 111-117): the store after the call; an exception of
\* setItem is caught and logged
saveAgents(list) ==
    IF setItemThrows
    THEN [threw |-> FALSE, logged |-> TRUE, storage |-> storage]
    ELSE [threw |-> FALSE, logged |-> FALSE,
          storage |-> setItem(storage, "agents", JSONstringify(list))]

\* createAgent (lines 1095-1173), submit of the create form
createAgent ==
    /\ manager = "ready"
    /\ IF CreateBlocked(form)
       THEN /\ last' = Did("createAgent", FALSE, BlockedAlert(form), FALSE, FALSE)
            /\ UNCHANGED <<storage, agents, viewVars, form, table, panelVars>>
       ELSE /\ Len(agents) < MaxAgents
            /\ LET list == push(agents, NewAgent(form, now))
                   sv == switchView("dashboard")
                   saved == saveAgents(list)
               IN  /\ agents' = list
                   /\ storage' = saved.storage
                   /\ table' = renderAgentsTable(list)
                   /\ noAgentsDisplay' = checkAgentsState(list)[1]
                   /\ agentsDisplay' = checkAgentsState(list)[2]
                   /\ ApplyView(sv)
                   /\ form' = EmptyForm
                   /\ last' = Did("createAgent", FALSE, CreatedAlert, TRUE,
                                  saved.logged)
    /\ UNCHANGED <<envVars, manager, onboardVars, currentEditingAgent, now,
                   configForm, filterVars, activeStep, timers>>
    /\ UNCHANGED toastVars
    /\ UNCHANGED testAgent
    /\ UNCHANGED manifestVars

\* ------------------------------------------------------------------------
\* deployAgent (lines 2273-2287)
\* ------------------------------------------------------------------------
DeployedAndTouched(agent) ==
    [agent EXCEPT !.status = sActive, !.lastActive = ISODate(now)]

\* agent.status = 'Active' (line 2282)
Deployed(agent) == [agent EXCEPT !.status = sActive]

\* the effect of deployAgent(id) on everything but the guidance tooltip
DeployEffect(id) ==
    /\ manager = "ready"
    /\ UNCHANGED <<envVars, manager, viewVars, isFirstVisit, onboardingActive,
                   currentEditingAgent, now, form, configForm, filterVars,
                   panelVars, timers>>
    /\ activeStep' = {"deploy"}
    /\ LET i == FindIndex(agents, id)
       IN  IF i = 0
           THEN /\ last' = Did("deployAgent", FALSE, "", FALSE, FALSE)
                /\ UNCHANGED <<agents, storage, table>>
           ELSE LET list == [agents EXCEPT ![i] = Deployed(agents[i])]
                    saved == saveAgents(list)
                IN  /\ agents' = list
                    /\ storage' = saved.storage
                    /\ table' = renderAgentsTable(list)
                    /\ last' = Did("deployAgent", FALSE, DeployedAlert, TRUE,
                                   saved.logged)

\* the deploy button of a table row (lines 851, 1305)
deployAgent(id) ==
    /\ DeployEffect(id)
    /\ UNCHANGED guidanceShown
    /\ UNCHANGED toastVars
    /\ UNCHANGED testAgent
    /\ UNCHANGED manifestVars

\* ------------------------------------------------------------------------
\* The configuration form
\* ------------------------------------------------------------------------
\* populateConfigForm (lines 1065-1090)
populateConfigForm(agent) ==
    [shortName |-> agent.name,
     fullName |-> OrElse(Get(agent, "fullName"), ""),
     agentVersion |-> OrElse(Get(agent, "version"), "1.0.0"),
     branchName |-> OrElse(Get(agent, "branch"), "main"),
     description |-> OrElse(Get(agent, "description"), ""),
     deploymentDate |-> OrElse(Get(agent, "deploymentDate"), "")]

\* editAgent (lines 2235-2249)
editAgent(id) ==
    /\ manager = "ready"
    /\ ApplyView(switchView("configure"))
    /\ activeStep' = {"configure"}
    /\ LET i == FindIndex(agents, id)
       IN  IF i = 0
           THEN UNCHANGED <<currentEditingAgent, configForm,
                            configManifestCode>>
           ELSE /\ currentEditingAgent' = agents[i].id
                /\ configForm' = populateConfigForm(agents[i])
                /\ configManifestCode' = updateConfigManifest(configForm')
    /\ last' = Did("editAgent", FALSE, "", FALSE, FALSE)
    /\ UNCHANGED manifestCode
    /\ UNCHANGED <<storage, envVars, manager, agents, onboardVars, now, form,
                   filterVars, table, panelVars, timers>>
    /\ UNCHANGED toastVars
    /\ UNCHANGED testAgent

\* an input event on a field of the configuration form (lines 159-173)
InputConfig(field, v) ==
    /\ manager = "ready"
    /\ configForm' = [configForm EXCEPT ![field] = v]
    /\ configForm' # configForm
    /\ configManifestCode' = updateConfigManifest(configForm')
    /\ UNCHANGED manifestCode
    /\ last' = Did("input", FALSE, "", FALSE, FALSE)
    /\ UNCHANGED <<storage, envVars, manager, agents, viewVars, onboardVars,
                   currentEditingAgent, now, form, filterVars, table,
                   panelVars, activeStep, timers>>
    /\ UNCHANGED toastVars
    /\ UNCHANGED testAgent

\* the properties updateAgentConfiguration overrides (lines 1036-1045)
ConfigUpdate(c, t) ==
    [name |-> c.shortName,
     fullName |-> c.fullName,
     version |-> OrElse(c.agentVersion, "1.0.0"),
     branch |-> OrElse(c.branchName, "main"),
     description |-> c.description,
     deploymentDate |-> c.deploymentDate,
     lastActive |-> ISODate(t)]

\* updateAgentConfiguration (lines 1018-1060)
updateAgentConfiguration ==
    /\ manager = "ready"
    /\ IF configForm.shortName = <<>> \/ configForm.fullName = ""
       THEN /\ last' = Did("updateAgentConfiguration", FALSE,
                           ConfigRequiredAlert, FALSE, FALSE)
            /\ UNCHANGED <<agents, storage, table, viewVars>>
       ELSE LET i == IF currentEditingAgent = NoEditingAgent THEN 0
                     ELSE FindIndex(agents, currentEditingAgent)
            IN  IF i = 0
                THEN /\ last' = Did("updateAgentConfiguration", FALSE, "",
                                    FALSE, FALSE)
                     /\ UNCHANGED <<agents, storage, table, viewVars>>
                ELSE LET list == [agents EXCEPT
                                    ![i] = Spread(agents[i], ConfigUpdate(configForm, now))]
                     IN  /\ agents' = list
                         /\ IF setItemThrows
                            THEN \* line 1048 is not inside a try block
                                 /\ last' = Did("updateAgentConfiguration",
                                                TRUE, "", FALSE, FALSE)
                                 /\ UNCHANGED <<storage, table, viewVars>>
                            ELSE /\ storage' = setItem(storage, "agents",
                                                       JSONstringify(list))
                                 /\ table' = renderAgentsTable(list)
                                 /\ ApplyView(switchView("dashboard"))
                                 /\ last' = Did("updateAgentConfiguration",
                                                FALSE, UpdatedAlert, TRUE,
                                                FALSE)
    /\ UNCHANGED <<envVars, manager, onboardVars, currentEditingAgent, now,
                   form, configForm, filterVars, panelVars, activeStep, timers>>
    /\ UNCHANGED toastVars
    /\ UNCHANGED testAgent
    /\ UNCHANGED manifestVars

\* ------------------------------------------------------------------------
\* Search and product filter (lines 1198-1256)
\* ------------------------------------------------------------------------
Queries == {<<>>, <<" ">>, <<"b","i","z">>, <<"B","I","Z">>, <<"t","E">>,
            <<" ","t">>, <<"a","c","t","i","v","e">>, <<"z","z">>}
Products == {<<>>, sM365, sTeams}

SearchMatchesCaseSensitiveOwner(agent, query) ==
    \/ includes(toLowerCase(agent.name), toLowerCase(query))
    \/ includes(toLowerCase(agent.product), toLowerCase(query))
    \/ includes(agent.owner, toLowerCase(query))
    \/ includes(toLowerCase(agent.status), toLowerCase(query))

\* the predicate of the search filter (lines 1205-1208, 1239-1242)
SearchMatches(agent, query) ==
    \/ includes(toLowerCase(agent.name), toLowerCase(query))
    \/ includes(toLowerCase(agent.product), toLowerCase(query))
    \/ includes(toLowerCase(agent.owner), toLowerCase(query))
    \/ includes(toLowerCase(agent.status), toLowerCase(query))

\* the list filterAgents(query) hands to renderFilteredAgents
filterAgents(list, query, productFilter) ==
    LET searched == IF trim(query) # <<>>
                    THEN SelectSeq(list, LAMBDA a : SearchMatches(a, query))
                    ELSE list
    IN  IF productFilter # <<>>
        THEN SelectSeq(searched, LAMBDA a : a.product = productFilter)
        ELSE searched

filterAgentsByProductOnly(list, product, searchQuery) ==
    IF product # <<>>
    THEN SelectSeq(list, LAMBDA a : a.product = product)
    ELSE list

\* the list filterAgentsByProduct(product) hands to renderFilteredAgents
filterAgentsByProduct(list, product, searchQuery) ==
    LET byProduct == IF product # <<>>
                     THEN SelectSeq(list, LAMBDA a : a.product = product)
                     ELSE list
    IN  IF trim(searchQuery) # <<>>
        THEN SelectSeq(byProduct, LAMBDA a : SearchMatches(a, searchQuery))
        ELSE byProduct

\* input event of the search box (lines 188-190)
SearchInput(q) ==
    /\ manager = "ready"
    /\ searchInput' = q
    /\ table' = renderFilteredAgents(filterAgents(agents, q, filterSelect))
    /\ last' = Did("filterAgents", FALSE, "", TRUE, FALSE)
    /\ UNCHANGED <<storage, envVars, manager, agents, viewVars, onboardVars,
                   currentEditingAgent, now, form, configForm, filterSelect,
                   panelVars, activeStep, timers>>
    /\ UNCHANGED toastVars
    /\ UNCHANGED testAgent
    /\ UNCHANGED manifestVars

\* change event of the product dropdown (lines 193-195)
FilterChange(p) ==
    /\ manager = "ready"
    /\ filterSelect' = p
    /\ table' = renderFilteredAgents(filterAgentsByProduct(agents, p, searchInput))
    /\ last' = Did("filterAgentsByProduct", FALSE, "", TRUE, FALSE)
    /\ UNCHANGED <<storage, envVars, manager, agents, viewVars, onboardVars,
                   currentEditingAgent, now, form, configForm, searchInput,
                   panelVars, activeStep, timers>>
    /\ UNCHANGED toastVars
    /\ UNCHANGED testAgent
    /\ UNCHANGED manifestVars

\* clearFilters (lines 1252-1256), the button of the placeholder row
clearFilters ==
    /\ manager = "ready"
    /\ table.noResults
    /\ searchInput' = <<>>
    /\ filterSelect' = <<>>
    /\ table' = renderAgentsTable(agents)
    /\ last' = Did("clearFilters", FALSE, "", TRUE, FALSE)
    /\ UNCHANGED <<storage, envVars, manager, agents, viewVars, onboardVars,
                   currentEditingAgent, now, form, configForm, panelVars,
                   activeStep, timers>>
    /\ UNCHANGED toastVars
    /\ UNCHANGED testAgent
    /\ UNCHANGED manifestVars

\* ------------------------------------------------------------------------
\* evaluateAgent (lines 2251-2261)
\* ------------------------------------------------------------------------
\* what the value setter of an input makes of undefined
sUndefined == <<"u","n","d","e","f","i","n","e","d">>

\* this.agents.find(a => a.id === id)?.name.toLowerCase()
TestAgentName(list, id) ==
    LET i == FindIndex(list, id)
    IN  IF i = 0 THEN sUndefined ELSE toLowerCase(list[i].name)

\* evaluateAgent(id): switchView('playground') comes first; when it throws
\* the lifecycle step and #test-agent are not reached
evaluateAgent(id) ==
    /\ manager = "ready"
    /\ LET sv == switchView("playground")
       IN  /\ ApplyView(sv)
           /\ activeStep' = IF sv.threw THEN activeStep ELSE {"evaluate"}
           /\ testAgent' = IF sv.threw THEN testAgent
                           ELSE TestAgentName(agents, id)
           /\ last' = Did("evaluateAgent", sv.threw, "", FALSE, FALSE)
    /\ UNCHANGED <<storage, envVars, manager, agents, onboardVars,
                   currentEditingAgent, now, form, configForm, filterVars,
                   table, panelVars, timers>>
    /\ UNCHANGED toastVars
    /\ UNCHANGED manifestVars

\* ------------------------------------------------------------------------
\* Toggle Demo Data (README, lines 3651 and 3706)
\* ------------------------------------------------------------------------
Flip(display) == IF display = "none" THEN "block" ELSE "none"

\* The button's handler is not part of script.js; it is modelled from its
\* description: it switches between the empty and the populated state.
toggleDemoData ==
    /\ manager = "ready"
    /\ noAgentsDisplay' = Flip(noAgentsDisplay)
    /\ agentsDisplay' = Flip(agentsDisplay)
    /\ last' = Did("toggleDemoData", FALSE, "", FALSE, FALSE)
    /\ UNCHANGED <<storage, envVars, manager, agents, viewVars, onboardVars,
                   currentEditingAgent, now, form, configForm, filterVars,
                   table, activeStep, timers>>
    /\ UNCHANGED toastVars
    /\ UNCHANGED testAgent
    /\ UNCHANGED manifestVars

\* ------------------------------------------------------------------------
\* Toasts (lines 615-677) and the quick actions that show them (335-373)
\* ------------------------------------------------------------------------
\* a toast element: translateX(100%) until its 10 ms timer has run
Toast(id, message) == [id |-> id, text |-> message, slidIn |-> FALSE]

ContainerMissingAlways == TRUE

\* !document.getElementById('toast-container') (lines 617-618)
ContainerMissing == toastContainers = 0

RemoveEveryToast(list, id) == <<>>

\* toast.parentNode.removeChild(toast) (lines 671-673)
RemoveToast(list, id) ==
    LET i == FindIndex(list, id)
    IN  IF i = 0 THEN list ELSE RemoveAt(list, i)

\* The effect of one showToast(message) call on the container, the toasts
\* and the timers `ts`: the container is created when it is missing, the
\* toast is appended to it, and two timers are registered.
showToast(message, ts) ==
    LET id == toastSeq + 1
    IN  [containers |-> IF ContainerMissing THEN toastContainers + 1
                        ELSE toastContainers,
         toasts |-> Append(toasts, Toast(id, message)),
         seq |-> id,
         timers |-> ts \o <<Timer("toastIn", 10, id),
                            Timer("toastOut", 3000, id)>>]

ApplyToast(t) ==
    /\ toastContainers' = t.containers
    /\ toasts' = t.toasts
    /\ toastSeq' = t.seq
    /\ timers' = t.timers

\* the toasts that pending callbacks are still going to show
PendingToasts ==
    Cardinality({i \in 1..Len(timers) : timers[i].kind = "healthy"})

\* quickAction(actionType) (lines 335-373): 'compareModels' shows a toast,
\* 'modelHealth' shows one and registers a timer that shows a second one
quickAction(actionType) ==
    /\ manager = "ready"
    /\ toastSeq + PendingToasts + (IF actionType = "modelHealth" THEN 2 ELSE 1)
          <= MaxToasts
    /\ LET t == showToast(actionType, timers)
       IN  ApplyToast(
             IF actionType = "modelHealth"
             THEN [t EXCEPT !.timers = Append(@, Timer("healthy", 2000, 0))]
             ELSE t)
    /\ last' = Did("quickAction", FALSE, "", FALSE, FALSE)
    /\ UNCHANGED <<storage, envVars, manager, agents, viewVars, onboardVars,
                   currentEditingAgent, now, form, configForm, filterVars,
                   table, panelVars, activeStep, agentTip, testAgent>>
    /\ UNCHANGED manifestVars

\* the callback of modelHealth's timer (lines 349-351)
HealthyTimer(i) ==
    /\ CanFire(i)
    /\ timers[i].kind = "healthy"
    /\ ApplyToast(showToast("healthy", RemoveAt(timers, i)))
    /\ last' = Did("healthyTimer", FALSE, "", FALSE, FALSE)
    /\ UNCHANGED <<storage, envVars, manager, agents, viewVars, onboardVars,
                   currentEditingAgent, now, form, configForm, filterVars,
                   table, panelVars, activeStep, agentTip, testAgent>>
    /\ UNCHANGED manifestVars

\* toasts and timers are all a toast callback touches
ToastFrame ==
    UNCHANGED <<storage, envVars, manager, agents, viewVars, onboardVars,
                currentEditingAgent, now, form, configForm, filterVars,
                table, panelVars, activeStep, toastContainers, toastSeq,
                agentTip, testAgent, manifestVars>>

\* 'Animate in' (lines 661-663)
ToastInTimer(i) ==
    /\ CanFire(i)
    /\ timers[i].kind = "toastIn"
    /\ timers' = RemoveAt(timers, i)
    /\ toasts' = [k \in 1..Len(toasts) |->
                    IF toasts[k].id = timers[i].arg
                    THEN [toasts[k] EXCEPT !.slidIn = TRUE] ELSE toasts[k]]
    /\ last' = Did("toastIn", FALSE, "", FALSE, FALSE)
    /\ ToastFrame

\* 'Remove after 3 seconds' (lines 666-676): slide out, then a 300 ms timer
ToastOutTimer(i) ==
    /\ CanFire(i)
    /\ timers[i].kind = "toastOut"
    /\ timers' = Append(RemoveAt(timers, i),
                        Timer("toastRemove", 300, timers[i].arg))
    /\ toasts' = [k \in 1..Len(toasts) |->
                    IF toasts[k].id = timers[i].arg
                    THEN [toasts[k] EXCEPT !.slidIn = FALSE] ELSE toasts[k]]
    /\ last' = Did("toastOut", FALSE, "", FALSE, FALSE)
    /\ ToastFrame

\* the inner callback (lines 668-672)
ToastRemoveTimer(i) ==
    /\ CanFire(i)
    /\ timers[i].kind = "toastRemove"
    /\ timers' = RemoveAt(timers, i)
    /\ toasts' = RemoveToast(toasts, timers[i].arg)
    /\ last' = Did("toastRemove", FALSE, "", FALSE, FALSE)
    /\ ToastFrame

\* ------------------------------------------------------------------------
\* Agent tips (lines 2557-2608)
\* ------------------------------------------------------------------------
\* the tips object of interactWithAgent (lines 2559-2575)
tips ==
    [welcome |-> <<"return to this tour", "start with a template",
                   "each step has guidance">>,
     lifecycle |-> <<"each step builds on the previous one",
                     "iterate between steps", "deploy includes testing">>,
     templates |-> <<"templates are customizable", "pre-configured metrics",
                     "mix and match features">>]

\* tips[context] || [the fallback tip] (line 2577)
contextTips(context) ==
    IF context \in DOMAIN tips THEN tips[context]
    ELSE <<"click around to explore">>

\* showAgentTip(tip): the one element .agent-tip is created or reused, gets
\* the text and the class 'active', and a 5 s timer is registered that
\* removes the class from that element.  The timer keeps no record of the
\* tip it was registered for; seq and the timer's arg name it for the
\* properties only.
showAgentTip(tip) ==
    /\ agentTip.seq < MaxTips
    /\ Len(timers) < MaxTimers
    /\ agentTip' = [active |-> TRUE, text |-> tip, seq |-> agentTip.seq + 1]
    /\ timers' = Append(timers, Timer("tipHide", 5000, agentTip.seq + 1))

\* interactWithAgent(context): a random tip of the context is shown
interactWithAgent(context) ==
    /\ manager = "ready"
    /\ \E k \in 1..Len(contextTips(context)) :
          showAgentTip(contextTips(context)[k])
    /\ last' = Did("interactWithAgent", FALSE, "", FALSE, FALSE)
    /\ UNCHANGED <<storage, envVars, manager, agents, viewVars, onboardVars,
                   currentEditingAgent, now, form, configForm, filterVars,
                   table, panelVars, activeStep, toastContainers, toasts,
                   toastSeq, testAgent, manifestVars>>

\* the callback of showAgentTip's timer (lines 2605-2607)
TipTimer(i) ==
    /\ CanFire(i)
    /\ timers[i].kind = "tipHide"
    /\ timers' = RemoveAt(timers, i)
    /\ agentTip' = [agentTip EXCEPT !.active = FALSE]
    /\ last' = Did("tipHide", FALSE, "", FALSE, FALSE)
    /\ UNCHANGED <<storage, envVars, manager, agents, viewVars, onboardVars,
                   currentEditingAgent, now, form, configForm, filterVars,
                   table, panelVars, activeStep, toastContainers, toasts,
                   toastSeq, testAgent, manifestVars>>

\* the close button of the tip (line 2598)
closeAgentTip ==
    /\ manager = "ready"
    /\ agentTip.active
    /\ agentTip' = [agentTip EXCEPT !.active = FALSE]
    /\ last' = Did("closeAgentTip", FALSE, "", FALSE, FALSE)
    /\ UNCHANGED <<storage, envVars, manager, agents, viewVars, onboardVars,
                   currentEditingAgent, now, form, configForm, filterVars,
                   table, panelVars, activeStep, timers, toastContainers,
                   toasts, toastSeq, testAgent, manifestVars>>

\* ------------------------------------------------------------------------
\* Lifecycle steps and their guidance (lines 774-802, 2629-2667, 2784-2794)
\* ------------------------------------------------------------------------
\* the keys of stepViewMap (lines 782-789)
Steps == {"create", "configure", "evaluate", "evaluate-prompts", "deploy",
          "monitor"}

\* stepViewMap[step]
StepView(step) ==
    CASE step = "create" -> "create"
      [] step = "configure" -> "configure"
      [] step = "evaluate" -> "playground"
      [] step = "evaluate-prompts" -> "tprompt"
      [] step = "deploy" -> "dashboard"
      [] step = "monitor" -> "metrics"

\* the keys of the guidance table of showStepGuidance (lines 2630-2661)
GuidedSteps == {"create", "configure", "evaluate", "deploy", "monitor"}

GuidanceKeyShared(step) == "guidance_shown"

\* the template literal `guidance_${step}_shown`
GuidanceKey(step) ==
    CASE step = "create" -> "guidance_create_shown"
      [] step = "configure" -> "guidance_configure_shown"
      [] step = "evaluate" -> "guidance_evaluate_shown"
      [] step = "evaluate-prompts" -> "guidance_evaluate-prompts_shown"
      [] step = "deploy" -> "guidance_deploy_shown"
      [] step = "monitor" -> "guidance_monitor_shown"

\* this.isFirstVisit || !localStorage.getItem(`guidance_${step}_shown`)
WantsGuidance(step) == isFirstVisit \/ ~Truthy(getItem(GuidanceKey(step)))

\* handleLifecycleStep(step), click on a lifecycle step (lines 133-138)
handleLifecycleStep(step) ==
    /\ manager = "ready"
    /\ activeStep' = {step}
    /\ LET sv == switchView(StepView(step))
       IN  /\ ApplyView(sv)
           /\ IF sv.threw
              THEN /\ timers' = timers
                   /\ last' = Did("handleLifecycleStep", TRUE, "", FALSE, FALSE)
              ELSE /\ IF WantsGuidance(step)
                      THEN /\ Len(timers) < MaxTimers
                           /\ timers' = Append(timers, Timer("guidance", 500, step))
                      ELSE timers' = timers
                   /\ last' = Did("handleLifecycleStep", FALSE, "", FALSE, FALSE)
    /\ UNCHANGED <<storage, envVars, manager, agents, onboardVars,
                   currentEditingAgent, now, form, configForm, filterVars,
                   table, panelVars>>
    /\ UNCHANGED toastVars
    /\ UNCHANGED testAgent
    /\ UNCHANGED manifestVars

\* handleLifecycleStepWithGuidance(step): handleLifecycleStep, then a timer
\* of its own
handleLifecycleStepWithGuidance(step) ==
    /\ manager = "ready"
    /\ activeStep' = {step}
    /\ LET sv == switchView(StepView(step))
           wants == WantsGuidance(step)
       IN  /\ ApplyView(sv)
           /\ IF sv.threw
              THEN /\ timers' = timers
                   /\ last' = Did("handleLifecycleStepWithGuidance", TRUE, "",
                                  FALSE, FALSE)
              ELSE /\ IF wants
                      THEN /\ Len(timers) + 2 <= MaxTimers
                           /\ timers' = timers \o <<Timer("guidance", 500, step),
                                                    Timer("guidance", 500, step)>>
                      ELSE timers' = timers
                   /\ last' = Did("handleLifecycleStepWithGuidance", FALSE, "",
                                  FALSE, FALSE)
    /\ UNCHANGED <<storage, envVars, manager, agents, onboardVars,
                   currentEditingAgent, now, form, configForm, filterVars,
                   table, panelVars>>
    /\ UNCHANGED toastVars
    /\ UNCHANGED testAgent
    /\ UNCHANGED manifestVars

\* the guidance callback (lines 796-799, 2789-2792): showStepGuidance(step),
\* then the flag is stored; an exception of setItem leaves the callback
GuidanceTimer(i) ==
    /\ manager = "ready"
    /\ CanFire(i)
    /\ timers[i].kind = "guidance"
    /\ timers' = RemoveAt(timers, i)
    /\ guidanceShown' = IF timers[i].arg \in GuidedSteps THEN timers[i].arg
                        ELSE guidanceShown
    /\ storage' = IF setItemThrows THEN storage
                  ELSE setItem(storage, GuidanceKey(timers[i].arg), Lit("true"))
    /\ last' = Did("guidanceTimer", setItemThrows, "", FALSE, FALSE)
    /\ UNCHANGED <<envVars, manager, agents, viewVars, isFirstVisit,
                   onboardingActive, currentEditingAgent, now, form, configForm,
                   filterVars, table, panelVars, activeStep>>
    /\ UNCHANGED toastVars
    /\ UNCHANGED testAgent
    /\ UNCHANGED manifestVars

\* the action button of the guidance tooltip (lines 2679-2682): the step's
\* actionFn, then hideStepTooltip; deploy's actionFn is this.deployAgent()
TooltipAction ==
    /\ manager = "ready"
    /\ guidanceShown # "none"
    /\ IF guidanceShown = "deploy"
       THEN /\ DeployEffect(UndefinedId)
            /\ guidanceShown' = "none"
       ELSE IF guidanceShown = "template"
       THEN /\ guidanceShown' = "none"
            /\ last' = Did("tooltipAction", FALSE, "", FALSE, FALSE)
            /\ UNCHANGED <<storage, envVars, manager, agents, viewVars,
                           isFirstVisit, onboardingActive, currentEditingAgent,
                           now, form, configForm, filterVars, table, panelVars,
                           activeStep, timers>>
       ELSE LET sv == switchView(StepView(guidanceShown))
            IN  /\ ApplyView(sv)
                /\ guidanceShown' = IF sv.threw THEN guidanceShown ELSE "none"
                /\ last' = Did("tooltipAction", sv.threw, "", FALSE, FALSE)
                /\ UNCHANGED <<storage, envVars, manager, agents, isFirstVisit,
                               onboardingActive, currentEditingAgent, now, form,
                               configForm, filterVars, table, panelVars,
                               activeStep, timers>>
    /\ UNCHANGED toastVars
    /\ UNCHANGED testAgent
    /\ UNCHANGED manifestVars

\* ------------------------------------------------------------------------
\* Onboarding overlay (lines 32-35, 2376-2388)
\* ------------------------------------------------------------------------
\* the callback of init's timer: showOnboarding
OnboardingTimer(i) ==
    /\ manager = "ready"
    /\ CanFire(i)
    /\ timers[i].kind = "showOnboarding"
    /\ timers' = RemoveAt(timers, i)
    /\ onboardingActive' = TRUE
    /\ last' = Did("showOnboarding", FALSE, "", FALSE, FALSE)
    /\ UNCHANGED <<storage, envVars, manager, agents, viewVars, isFirstVisit,
                   guidanceShown, currentEditingAgent, now, form, configForm,
                   filterVars, table, panelVars, activeStep>>
    /\ UNCHANGED toastVars
    /\ UNCHANGED testAgent
    /\ UNCHANGED manifestVars

\* closeOnboarding, the close button of the overlay
closeOnboarding ==
    /\ manager = "ready"
    /\ onboardingActive
    /\ onboardingActive' = FALSE
    /\ storage' = IF setItemThrows THEN storage
                  ELSE setItem(storage, "hasVisited", Lit("true"))
    /\ last' = Did("closeOnboarding", setItemThrows, "", FALSE, FALSE)
    /\ UNCHANGED <<envVars, manager, agents, viewVars, isFirstVisit,
                   guidanceShown, currentEditingAgent, now, form, configForm,
                   filterVars, table, panelVars, activeStep, timers>>
    /\ UNCHANGED toastVars
    /\ UNCHANGED testAgent
    /\ UNCHANGED manifestVars

\* ------------------------------------------------------------------------
\* Templates (lines 2725-2781)
\* ------------------------------------------------------------------------
sSalesAgent == <<"S","a","l","e","s","A","g","e","n","t">>
sResearchAgent == <<"R","e","s","e","a","r","c","h","A","g","e","n","t">>
sOpsGenieAgent == <<"O","p","s","G","e","n","i","e","A","g","e","n","t">>
sSupportAgent == <<"S","u","p","p","o","r","t","A","g","e","n","t">>

\* the templates object of selectTemplate (lines 2726-2755)
templates ==
    [sales |-> [name |-> sSalesAgent, displayName |-> "Sales Assistant",
                description |-> "AI agent specialized in lead qualification",
                prompt |-> "You are a sales assistant AI"],
     research |-> [name |-> sResearchAgent, displayName |-> "Research Assistant",
                   description |-> "AI agent that excels at information gathering",
                   prompt |-> "You are a research assistant AI"],
     opsgenie |-> [name |-> sOpsGenieAgent, displayName |-> "Operations Assistant",
                   description |-> "AI agent for incident management",
                   prompt |-> "You are an operations assistant AI"],
     support |-> [name |-> sSupportAgent,
                  displayName |-> "Customer Support Assistant",
                  description |-> "AI agent for customer support",
                  prompt |-> "You are a customer support assistant AI"]]

\* the four assignments of the prefill callback (lines 2765-2768): the name
\* goes to the element 'compliant-agent-name', the element 'short-name' that
\* createAgent and updateManifest read is not written
Prefill(f, template) ==
    [f EXCEPT !.compliantAgentName = template.name,
              !.fullName = template.displayName,
              !.description = template.description,
              !.systemPrompt = template.prompt]

\* selectTemplate(templateType): a template card is clicked
selectTemplate(templateType) ==
    /\ manager = "ready"
    /\ IF templateType \notin DOMAIN templates
       THEN /\ last' = Did("selectTemplate", FALSE, "", FALSE, FALSE)
            /\ UNCHANGED <<viewVars, timers>>
       ELSE LET sv == switchView("create")
            IN  /\ ApplyView(sv)
                /\ IF sv.threw
                   THEN timers' = timers
                   ELSE /\ Len(timers) < MaxTimers
                        /\ timers' = Append(timers,
                                            Timer("prefill", 100, templateType))
                /\ last' = Did("selectTemplate", sv.threw, "", FALSE, FALSE)
    /\ UNCHANGED <<storage, envVars, manager, agents, onboardVars,
                   currentEditingAgent, now, form, configForm, filterVars,
                   table, panelVars, activeStep>>
    /\ UNCHANGED toastVars
    /\ UNCHANGED testAgent
    /\ UNCHANGED manifestVars

\* the prefill callback (lines 2764-2777): the form is filled, the tooltip
\* is shown with hideStepTooltip as its action, the manifest is refreshed
PrefillTimer(i) ==
    /\ manager = "ready"
    /\ CanFire(i)
    /\ timers[i].kind = "prefill"
    /\ timers' = RemoveAt(timers, i)
    /\ form' = Prefill(form, templates[timers[i].arg])
    /\ guidanceShown' = "template"
    /\ manifestCode' = updateManifest(form')
    /\ UNCHANGED configManifestCode
    /\ last' = Did("prefillTimer", FALSE, "", FALSE, FALSE)
    /\ UNCHANGED <<storage, envVars, manager, agents, viewVars, isFirstVisit,
                   onboardingActive, currentEditingAgent, now, configForm,
                   filterVars, table, panelVars, activeStep>>
    /\ UNCHANGED toastVars
    /\ UNCHANGED testAgent

\* ------------------------------------------------------------------------
\* Specifications
\* ------------------------------------------------------------------------
\* ids the row buttons and the guidance action pass to the handlers
DeployIds == {3, 5, 99, UndefinedId}
EditIds == {2, 99}
\* the lifecycle steps the user clicks
ClickedSteps == {"evaluate", "evaluate-prompts", "deploy"}

\* Agent data: page load, the create form, create, deploy
InitData == Init /\ domViews = BaseViews

NextData ==
    \/ Construct
    \/ Reload
    \/ Tick
    \/ \E inp \in FormInputs : InputForm(inp[1], inp[2])
    \/ createAgent
    \/ \E id \in DeployIds : deployAgent(id)
    \/ NavClick("create")

Spec == InitData /\ [][NextData]_vars

\* Configuration: the three handlers that write the list, and the reload
NextConfig ==
    \/ Construct
    \/ Reload
    \/ \E inp \in {<<"shortName", sQa>>, <<"fullName", "QA Agent">>} :
          InputForm(inp[1], inp[2])
    \/ createAgent
    \/ deployAgent(3)
    \/ \E id \in EditIds : editAgent(id)
    \/ \E inp \in ConfigInputs : InputConfig(inp[1], inp[2])
    \/ updateAgentConfiguration

SpecConfig == InitData /\ [][NextConfig]_vars

\* Toasts: quick actions and the timer callbacks of their toasts.  The
\* browser runs every pending callback once its delay has passed.
QuickActions == {"compareModels", "modelHealth"}

ToastTimers ==
    \E i \in 1..Len(timers) :
       \/ OnboardingTimer(i)
       \/ HealthyTimer(i)
       \/ ToastInTimer(i)
       \/ ToastOutTimer(i)
       \/ ToastRemoveTimer(i)

NextToast ==
    \/ Construct
    \/ \E a \in QuickActions : quickAction(a)
    \/ ToastTimers

SpecToast == InitData /\ [][NextToast]_vars /\ WF_vars(ToastTimers)

\* Manifest previews: input events on the two forms
ManifestInputs ==
    {<<"shortName", <<>>>>, <<"shortName", sQa>>,
     <<"agentVersion", "">>, <<"agentVersion", "2.0.0">>,
     <<"description", "">>, <<"description", "Helps">>,
     <<"deploymentDate", "">>, <<"deploymentDate", "2025-07-01">>,
     <<"highestRing", "MSIT">>, <<"agentType", "3P">>}
ConfigManifestInputs ==
    {<<"branchName", "">>, <<"branchName", "dev">>,
     <<"description", "">>, <<"description", "Tuned">>}

NextManifest ==
    \/ Construct
    \/ \E inp \in ManifestInputs : InputForm(inp[1], inp[2])
    \/ editAgent(2)
    \/ \E inp \in ConfigManifestInputs : InputConfig(inp[1], inp[2])

SpecManifest == InitData /\ [][NextManifest]_vars

\* Dashboard: the table under search and product filter, the two panels
InitFilter == Init /\ domViews = BaseViews /\ storageAccess = "ok"

NextFilter ==
    \/ Construct
    \/ \E inp \in {<<"shortName", sQa>>, <<"fullName", "QA Agent">>} :
          InputForm(inp[1], inp[2])
    \/ createAgent
    \/ deployAgent(3)
    \/ \E q \in Queries : SearchInput(q)
    \/ \E p \in Products : FilterChange(p)
    \/ clearFilters

SpecFilter == InitFilter /\ [][NextFilter]_vars

\* The demo-data button next to page load, create and deploy
NextToggle ==
    \/ Construct
    \/ Reload
    \/ \E inp \in {<<"shortName", sQa>>, <<"fullName", "QA Agent">>} :
          InputForm(inp[1], inp[2])
    \/ createAgent
    \/ deployAgent(3)
    \/ toggleDemoData

SpecToggle == InitFilter /\ [][NextToggle]_vars

\* Guidance and onboarding: lifecycle steps, their timers, the overlay
NextGuide ==
    \/ Construct
    \/ Reload
    \/ deployAgent(3)
    \/ \E step \in ClickedSteps : handleLifecycleStep(step)
    \/ \E step \in ClickedSteps : handleLifecycleStepWithGuidance(step)
    \/ \E i \in 1..MaxTimers : GuidanceTimer(i)
    \/ \E i \in 1..MaxTimers : OnboardingTimer(i)
    \/ TooltipAction
    \/ closeOnboarding

SpecGuide == Init /\ [][NextGuide]_vars

\* Templates: a template card, its prefill timer, the create form
TemplateTypes == {"sales", "support", "blank"}

NextTemplate ==
    \/ Construct
    \/ Reload
    \/ \E templateType \in TemplateTypes : selectTemplate(templateType)
    \/ \E i \in 1..MaxTimers : PrefillTimer(i)
    \/ \E i \in 1..MaxTimers : OnboardingTimer(i)
    \/ TooltipAction
    \/ InputForm("shortName", sQa)
    \/ createAgent

SpecTemplate == InitData /\ [][NextTemplate]_vars

\* Agent tips: the contexts that ask for a tip, the tip's timer, its button
TipContexts == {"welcome", "templates", "dashboard"}

NextTip ==
    \/ Construct
    \/ Reload
    \/ \E context \in TipContexts : interactWithAgent(context)
    \/ \E i \in 1..MaxTimers : TipTimer(i)
    \/ \E i \in 1..MaxTimers : OnboardingTimer(i)
    \/ closeAgentTip

SpecTip == InitData /\ [][NextTip]_vars

\* Navigation: nav links, lifecycle steps, the row buttons Configure and
\* Evaluate, on a page with or without a playground panel
ViewArgs == BaseViews \cup {"playground"}

NextView ==
    \/ Construct
    \/ Reload
    \/ \E view \in ViewArgs : NavClick(view)
    \/ handleLifecycleStep("evaluate")
    \/ editAgent(2)
    \/ \E id \in EditIds : evaluateAgent(id)
    \/ \E i \in 1..MaxTimers : GuidanceTimer(i)
    \/ \E i \in 1..MaxTimers : OnboardingTimer(i)

SpecView == Init /\ [][NextView]_vars

\* ------------------------------------------------------------------------
\* Properties
\* ------------------------------------------------------------------------
\* the handlers that write the agent list
WritingHandlers == {"createAgent", "deployAgent", "updateAgentConfiguration"}

\* C1: whenever the text stored under 'agents' is malformed (not JSON, or
\* JSON that is not a list of records), constructing AgentManager discards
\* it, starts with the 4-record sample list, and does not throw.
C1_MalformedStateIsDiscarded ==
    (/\ last.op = "constructor"
     /\ storageAccess = "ok"
     /\ getItem("agents") \in MalformedTexts)
        => (manager = "ready" /\ ~last.threw /\ agents = SampleAgents)

\* C2: loadAgents never throws; when the 'agents' key is absent or empty,
\* when getItem throws, or when JSON.parse fails, it returns the sample list
\* of exactly 4 records with ids 1, 2, 3, 4 in that order, shows no alert
\* and writes nothing to localStorage.
C2_LoadAgentsFallsBackSilently ==
    LET r == loadAgents
        stored == getItem("agents")
        fallback == \/ storageAccess = "denied"
                    \/ stored = NullItem
                    \/ stored = Lit("")
                    \/ ~JSONparse(stored).ok
    IN  /\ ~r.threw
        /\ r.storage = storage
        /\ fallback =>
              /\ r.type = "array"
              /\ Len(r.items) = 4
              /\ [i \in 1..4 |-> r.items[i].id] = <<1, 2, 3, 4>>
              /\ r.items = SampleAgents
        /\ (last.op = "constructor" /\ fallback) =>
              (agents = SampleAgents /\ last.alert = "")

C2_Witness ==
    /\ last.op = "constructor"
    /\ manager = "ready"
    /\ getItem("agents") = Lit("{bad")
    /\ last.logged
    /\ agents = SampleAgents

\* C3: createAgent with an empty short name or an empty full name blocks the
\* submission: no record is appended, the 'agents' storage value, the table
\* and currentView are unchanged, nothing is rendered, the form is not reset.
C3_BlockedCreateChangesNothing ==
    [][(createAgent /\ (form.shortName = <<>> \/ form.fullName = ""))
         => /\ agents' = agents
            /\ storage' = storage
            /\ table' = table
            /\ ~last'.rendered
            /\ currentView' = currentView
            /\ form' = form]_vars

C3_Witness ==
    /\ last.op = "createAgent"
    /\ last.alert = RequiredFieldsAlert
    /\ form.shortName = sQa
    /\ form.fullName = ""
    /\ currentView = "create"
    /\ agents = SampleAgents

\* the field names an alert text mentions
FieldsNamedIn(text) ==
    IF text = RequiredFieldsAlert THEN {"Short Name", "Full Name"}
    ELSE IF text = MissingShortNameAlert THEN {"Short Name"}
    ELSE IF text = MissingFullNameAlert THEN {"Full Name"}
    ELSE {}

\* the required fields of the create form that are empty
MissingFields(f) ==
    (IF f.shortName = <<>> THEN {"Short Name"} ELSE {})
        \cup (IF f.fullName = "" THEN {"Full Name"} ELSE {})

\* C4 as stated: the message of a blocked createAgent lists exactly the
\* fields that are missing (only the short name, only the full name, or both).
C4_MessageListsMissingFields ==
    [][(createAgent /\ MissingFields(form) # {})
         => FieldsNamedIn(last'.alert) = MissingFields(form)]_vars

\* C4 amended: the message of a blocked createAgent is one fixed text that
\* names both required fields, whichever of them is missing.
C4_MessageNamesBothRequiredFields ==
    [][(createAgent /\ MissingFields(form) # {})
         => /\ last'.alert = RequiredFieldsAlert
            /\ FieldsNamedIn(last'.alert) = {"Short Name", "Full Name"}]_vars

C4_Witness ==
    /\ last.op = "createAgent"
    /\ MissingFields(form) = {"Short Name"}
    /\ form.fullName = "QA Agent"
    /\ FieldsNamedIn(last.alert) = {"Short Name", "Full Name"}

\* String.prototype.toUpperCase on one character
UpperChar(c) ==
    IF \E i \in 1..26 : LowerChars[i] = c
    THEN UpperChars[CHOOSE i \in 1..26 : LowerChars[i] = c]
    ELSE c
toUpperCase(s) == [i \in 1..Len(s) |-> UpperChar(s[i])]

\* q occurs in text when letter case is ignored
OccursIgnoringCase(q, text) ==
    \E off \in 0..(Len(text) - Len(q)) :
        \A j \in 1..Len(q) : LowerChar(text[off + j]) = LowerChar(q[j])

\* the positions of the agents a search for q under product filter p selects
Selected(list, q, p) ==
    {i \in 1..Len(list) :
        /\ \/ OccursIgnoringCase(q, list[i].name)
           \/ OccursIgnoringCase(q, list[i].product)
           \/ OccursIgnoringCase(q, list[i].owner)
           \/ OccursIgnoringCase(q, list[i].status)
        /\ p # <<>> => list[i].product = p}

\* the table shows the agents at the positions sel, in list order
ShowsExactly(list, sel) ==
    /\ table.noResults = (sel = {})
    /\ Len(table.rows) = Cardinality(sel)
    /\ \A k \in 1..Len(table.rows) :
          \E i \in sel :
             /\ Cardinality({j \in sel : j < i}) = k - 1
             /\ table.rows[k].id = list[i].id
             /\ table.rows[k].name = list[i].name
             /\ table.rows[k].product = list[i].product
             /\ table.rows[k].status = list[i].status

\* a query with something other than white space in it
NonBlank(q) == \E j \in 1..Len(q) : q[j] # " "

\* C5: filterAgents(q) with a non-blank q displays exactly the agents, in
\* list order, for which lower-cased q is a substring of the lower-cased
\* name, product, owner or status, restricted to the selected product when
\* one is selected; the result does not depend on the letter case of q.
C5_FilterShowsCaseInsensitiveMatches ==
    (last.op = "filterAgents" /\ NonBlank(searchInput)) =>
        /\ ShowsExactly(agents, Selected(agents, searchInput, filterSelect))
        /\ filterAgents(agents, toUpperCase(searchInput), filterSelect)
             = filterAgents(agents, searchInput, filterSelect)
        /\ filterAgents(agents, toLowerCase(searchInput), filterSelect)
             = filterAgents(agents, searchInput, filterSelect)

C5_Witness ==
    /\ last.op = "filterAgents"
    /\ searchInput = <<" ","t">>
    /\ filterSelect = sM365
    /\ Len(agents) = 5
    /\ [k \in 1..Len(table.rows) |-> table.rows[k].id] = <<2, 3>>

\* the same property, read as JavaScript reads it: a missing key and a key
\* holding undefined are both undefined
SameProperty(a, b, key) ==
    \/ key \in DOMAIN a /\ key \in DOMAIN b /\ a[key] = b[key]
    \/ key \notin DOMAIN a /\ key \notin DOMAIN b
    \/ key \in UndefinableKeys /\ Get(a, key) = UNDEF /\ Get(b, key) = UNDEF

SameRecords(l1, l2) ==
    /\ Len(l1) = Len(l2)
    /\ \A i \in 1..Len(l1) :
          \A key \in DOMAIN l1[i] \cup DOMAIN l2[i] :
             SameProperty(l1[i], l2[i], key)

\* C6: after any sequence of createAgent, deployAgent and
\* updateAgentConfiguration whose storage writes succeed, the value stored
\* under 'agents' decodes to the in-memory list: loadAgents, as a reload
\* runs it, yields the same records in the same order.
C6_StoredListDecodesToMemory ==
    (manager = "ready" /\ storageAccess = "ok") =>
        /\ loadAgents.type = "array"
        /\ SameRecords(loadAgents.items, agents)
        /\ last.op \in WritingHandlers /\ last.rendered =>
              /\ "agents" \in DOMAIN storage
              /\ JSONparse(storage["agents"]).ok
              /\ SameRecords(JSONparse(storage["agents"]).items, agents)

C6_Witness ==
    /\ manager = "ready"
    /\ storageAccess = "ok"
    /\ last.op \in WritingHandlers
    /\ Len(agents) = 5
    /\ agents[2].name = sQb
    /\ Get(agents[2], "fullName") = "Renamed"
    /\ agents[3].status = sActive
    /\ Get(agents[5], "agentType") = UNDEF
    /\ "agentType" \notin DOMAIN JSONparse(storage["agents"]).items[5]

\* the stored 'agents' text decodes to the list
Persisted(st, list) ==
    /\ "agents" \in DOMAIN st
    /\ JSONparse(st["agents"]).ok
    /\ JSONparse(st["agents"]).type = "array"
    /\ SameRecords(JSONparse(st["agents"]).items, list)

\* a deployAgent(id) step sets the status of the record with that id to
\* 'Active' and changes nothing else in the list; without such a record the
\* list and the store stay as they are
DeployChangesStatusOnly(id) ==
    IF \E i \in 1..Len(agents) : agents[i].id = id
    THEN /\ Len(agents') = Len(agents)
         /\ \E i \in 1..Len(agents) :
               /\ agents[i].id = id
               /\ agents'[i].status = sActive
               /\ DOMAIN agents'[i] = DOMAIN agents[i]
               /\ \A key \in DOMAIN agents[i] \ {"status"} :
                     agents'[i][key] = agents[i][key]
               /\ \A j \in 1..Len(agents) : j # i => agents'[j] = agents[j]
    ELSE agents' = agents /\ storage' = storage

\* C7 as stated: deployAgent(id) for an id in the list overwrites that
\* record's status with 'Active', changes no other field and no other
\* record, and persists the list; for an id matching no record (the
\* undefined id of the guidance action included) list and store are unchanged.
C7_DeployPersistsTheList ==
    [][\A id \in DeployIds :
          deployAgent(id) =>
             /\ DeployChangesStatusOnly(id)
             /\ (\E i \in 1..Len(agents) : agents[i].id = id)
                   => Persisted(storage', agents')]_vars

\* C7 amended: as above, but the list is persisted only when setItem
\* succeeds; when setItem throws, the stored value stays as it was.
C7_DeployPersistsUnlessSetItemThrows ==
    [][\A id \in DeployIds :
          deployAgent(id) =>
             /\ DeployChangesStatusOnly(id)
             /\ (\E i \in 1..Len(agents) : agents[i].id = id)
                   => IF storageAccess = "ok"
                      THEN Persisted(storage', agents')
                      ELSE storage' = storage /\ last'.logged]_vars

C7_Witness ==
    /\ last.op = "deployAgent"
    /\ last.alert = DeployedAlert
    /\ storageAccess = "ok"
    /\ agents[3] = [SampleAgents[3] EXCEPT !.status = sActive]
    /\ agents[4] = SampleAgents[4]
    /\ Persisted(storage, agents)

Visible(display) == display # "none"

C10_SetItemFailureIsCaught ==
    (last.op \in WritingHandlers /\ (last.logged \/ last.threw)) =>
        /\ ~last.threw
        /\ last.rendered
        /\ last.alert \in {CreatedAlert, DeployedAlert, UpdatedAlert}
        /\ last.op # "deployAgent" => currentView = "dashboard"

\* ------------------------------------------------------------------------
\* Toasts
\* ------------------------------------------------------------------------
InContainer(id) == \E k \in 1..Len(toasts) : toasts[k].id = id

ToastIds == 1..(MaxToasts + 1)

\* the timers that belong to toast id
TimersOf(ts, id) ==
    {k \in 1..Len(ts) :
        /\ ts[k].kind \in {"toastIn", "toastOut", "toastRemove"}
        /\ ts[k].arg = id}

\* C11: every toast shown is eventually removed by its own timers; a step
\* that takes a toast out of the container is that toast's own 300 ms
\* callback and takes out that toast only; no step drops a pending toast
\* timer other than by running it; the toast that leaves is the oldest one.
C11_ToastsLeaveInOrderShown ==
    /\ \A id \in ToastIds : InContainer(id) ~> ~InContainer(id)
    /\ [][\A id \in ToastIds :
             /\ (InContainer(id) /\ ~InContainer(id)') =>
                   /\ \E i \in TimersOf(timers, id) : ToastRemoveTimer(i)
                   /\ toasts[1].id = id
                   /\ toasts' = Tail(toasts)
             /\ (InContainer(id) /\ InContainer(id)') =>
                   \/ Cardinality(TimersOf(timers', id))
                         = Cardinality(TimersOf(timers, id))
                   \/ \E i \in TimersOf(timers, id) :
                         ToastInTimer(i) \/ ToastOutTimer(i)]_vars

C11_Witness ==
    /\ last.op = "toastRemove"
    /\ toastSeq = 3
    /\ ~InContainer(1)
    /\ Len(toasts) = 2
    /\ toasts[1].id = 2
    /\ \E i \in TimersOf(timers, 2) : timers[i].kind = "toastRemove"

ManifestKeys ==
    {"version", "name", "display_name", "description", "branch",
     "deployment_target", "highest_allowed_ring", "agent_type",
     "parent_agent", "patches"}

\* the inputs that are replaced by a default when empty or missing
DefaultsApplied(m, version, branch, ring, type) ==
    /\ m.version = (IF version = "" THEN "1.0.0" ELSE version)
    /\ m.branch = (IF branch = "" THEN "main" ELSE branch)
    /\ m.highest_allowed_ring = (IF ring = UNDEF THEN "DEV" ELSE ring)
    /\ m.agent_type = (IF type = UNDEF THEN "1P" ELSE type)

\* the keys a preview holds for the given description and deployment date
KeysFor(description, deploymentDate) ==
    (ManifestKeys \ {"description", "deployment_target"})
       \cup (IF description = "" THEN {} ELSE {"description"})
       \cup (IF deploymentDate = "" THEN {} ELSE {"deployment_target"})

\* C13 as stated: both manifest previews hold the same ten top-level keys
\* for every combination of form inputs, with the defaults filled in.
C13_ManifestHasFixedShape ==
    manager = "ready" =>
       /\ DOMAIN manifestCode = ManifestKeys
       /\ DOMAIN configManifestCode = ManifestKeys

\* C13 amended: eight keys are always there, with the defaults filled in;
\* description and deployment_target are there exactly when their input is
\* not empty.
C13_ManifestDropsEmptyFields ==
    manager = "ready" =>
       /\ DOMAIN manifestCode = KeysFor(form.description, form.deploymentDate)
       /\ DOMAIN configManifestCode
             = KeysFor(configForm.description, configForm.deploymentDate)
       /\ DefaultsApplied(manifestCode, form.agentVersion, form.branchName,
                          form.highestRing, form.agentType)
       /\ DefaultsApplied(configManifestCode, configForm.agentVersion,
                          configForm.branchName, UNDEF, UNDEF)
       /\ manifestCode.name = (IF form.shortName = <<>> THEN sEAgent
                               ELSE form.shortName)
       /\ configManifestCode.name
             = (IF configForm.shortName = <<>> THEN sEmailAgent
                ELSE configForm.shortName)
       /\ manifestCode.display_name = "EmailAgent"
       /\ "description" \in DOMAIN manifestCode
             => manifestCode.description = form.description

C13_Witness ==
    /\ manager = "ready"
    /\ form.description = ""
    /\ form.deploymentDate = "2025-07-01"
    /\ form.agentVersion = ""
    /\ form.highestRing = "MSIT"
    /\ "description" \notin DOMAIN manifestCode
    /\ manifestCode.deployment_target = "2025-07-01"
    /\ configForm.description = "Tuned"
    /\ configManifestCode.branch = "main"
    /\ configForm.branchName = ""

\* ------------------------------------------------------------------------
\* createAgent
\* ------------------------------------------------------------------------
\* an unblocked createAgent step
CreateSucceeds == createAgent /\ ~CreateBlocked(form)

HasId(list, id) == \E i \in 1..Len(list) : list[i].id = id

\* C14: createAgent checks no identifier: the new record takes the clock
\* value as its id and is appended even when a record of the list already
\* has that id, and the list then holds two records with the same id.
C14_DuplicateIdIsAppended ==
    [][CreateSucceeds =>
         /\ Len(agents') = Len(agents) + 1
         /\ agents'[Len(agents')].id = now
         /\ HasId(agents, now) =>
               \E i, j \in 1..Len(agents') :
                  i # j /\ agents'[i].id = agents'[j].id]_vars

C14_Witness ==
    /\ last.op = "createAgent"
    /\ last.alert = CreatedAlert
    /\ Len(agents) = 6
    /\ agents[5].id = agents[6].id
    /\ agents[5].id = now

\* what a createAgent step that is not blocked does to the list, the view
\* and the table
CreateAppendsOne ==
    /\ Len(agents') = Len(agents) + 1
    /\ SubSeq(agents', 1, Len(agents)) = agents
    /\ agents'[Len(agents')].status = sTesting
    /\ agents'[Len(agents')].successRate = 0
    /\ agents'[Len(agents')].interactions = 0
    /\ currentView' = "dashboard"
    /\ ~table'.noResults
    /\ Len(table'.rows) = Len(agents')
    /\ \A i \in 1..Len(agents') : table'.rows[i] = Row(agents'[i])

\* C15 as stated: a successful createAgent appends exactly one record at the
\* end, with status 'Testing', successRate 0 and interactions 0, leaves the
\* existing records and their order alone, persists the list and ends on
\* the dashboard; the table rows are rendered in list order.
C15_CreateAppendsAndPersists ==
    [][CreateSucceeds =>
         (CreateAppendsOne /\ Persisted(storage', agents'))]_vars

\* C15 amended: as above, but the list is persisted only when setItem
\* succeeds; when it throws, the error is logged and the store keeps its
\* value.
C15_CreateAppendsAndPersistsUnlessSetItemThrows ==
    [][CreateSucceeds =>
         /\ CreateAppendsOne
         /\ IF storageAccess = "ok"
            THEN Persisted(storage', agents')
            ELSE storage' = storage /\ last'.logged]_vars

C15_Witness ==
    /\ last.op = "createAgent"
    /\ last.alert = CreatedAlert
    /\ storageAccess = "ok"
    /\ Len(agents) = 5
    /\ agents[3].status = sActive
    /\ agents[5].name = sQa
    /\ agents[5].status = sTesting
    /\ table.rows[5].name = sQa
    /\ currentView = "dashboard"
    /\ Persisted(storage, agents)

\* ------------------------------------------------------------------------
\* Onboarding
\* ------------------------------------------------------------------------
HasTimer(ts, kind) == \E i \in 1..Len(ts) : ts[i].kind = kind

\* C16: a load schedules the onboarding overlay exactly when 'hasVisited'
\* is absent from localStorage, and once closeOnboarding has run the key is
\* stored, so that every later load computes isFirstVisit = false and
\* schedules no overlay.
C16_ClosedOnboardingStaysClosed ==
    [][/\ (Construct /\ manager' = "ready") =>
            /\ isFirstVisit' = (getItem("hasVisited") = NullItem)
            /\ HasTimer(timers', "showOnboarding") <=> isFirstVisit'
       /\ closeOnboarding => ~checkFirstVisit'
       /\ ~checkFirstVisit => ~checkFirstVisit']_vars

\* ------------------------------------------------------------------------
\* Templates
\* ------------------------------------------------------------------------
\* C17: selectTemplate of a known template switches to the create view and
\* registers the prefill timer; when that timer has fired, the short name
\* and the full name createAgent checks hold the template's name and display
\* name, so createAgent is not blocked; an unknown template changes nothing.
C17_TemplateFillsRequiredFields ==
    [][/\ \A templateType \in TemplateTypes :
            selectTemplate(templateType) =>
               IF templateType \in DOMAIN templates
               THEN currentView' = "create" /\ HasTimer(timers', "prefill")
               ELSE UNCHANGED <<storage, manager, agents, viewVars, onboardVars,
                                form, table, timers, manifestVars>>
       /\ \A i \in 1..Len(timers) :
            PrefillTimer(i) =>
               /\ form'.shortName = templates[timers[i].arg].name
               /\ form'.fullName = templates[timers[i].arg].displayName
               /\ ~CreateBlocked(form')]_vars

\* ------------------------------------------------------------------------
\* Search and product filter together
\* ------------------------------------------------------------------------
\* what the search box and the dropdown select from the list, in list order
MatchesBoth(list, q, p) ==
    SelectSeq(list, LAMBDA a : /\ NonBlank(q) => SearchMatches(a, q)
                               /\ p # <<>> => a.product = p)

\* C18: whenever the page is loaded, the rows of the dashboard table are
\* exactly the agents that match the current contents of the search box and
\* of the product dropdown.
C18_TableMatchesFilters ==
    manager = "ready" =>
        LET shown == MatchesBoth(agents, searchInput, filterSelect)
        IN  table.rows = [i \in 1..Len(shown) |-> Row(shown[i])]

\* C19: after either filter handler, the table is what the other handler
\* renders for the same search box and dropdown: the agents that satisfy
\* both restrictions, in list order, where an empty or blank query
\* restricts nothing, and the single placeholder row when no agent is left.
C19_SearchAndProductFilterCommute ==
    last.op \in {"filterAgents", "filterAgentsByProduct"} =>
        LET shown == MatchesBoth(agents, searchInput, filterSelect)
        IN  /\ table = renderFilteredAgents(
                          filterAgents(agents, searchInput, filterSelect))
            /\ table = renderFilteredAgents(
                          filterAgentsByProduct(agents, filterSelect, searchInput))
            /\ table.noResults = (shown = <<>>)
            /\ table.rows = [i \in 1..Len(shown) |-> Row(shown[i])]

C19_Witness ==
    /\ last.op = "filterAgentsByProduct"
    /\ searchInput = <<"a","c","t","i","v","e">>
    /\ filterSelect = sTeams
    /\ Len(agents) >= 4
    /\ Len(table.rows) \in 1..(Len(agents) - 1)
    /\ \A k \in 1..Len(table.rows) : table.rows[k].product = sTeams

\* ------------------------------------------------------------------------
\* Guidance of a returning user
\* ------------------------------------------------------------------------
\* C20: for a returning user the guidance of a lifecycle step is shown at
\* most once: a guidance callback never shows the tooltip of a step whose
\* flag guidance_<step>_shown is already stored, however many clicks on the
\* step came before the first callback.
C20_GuidanceShownAtMostOnce ==
    [][\A i \in 1..Len(timers) :
         (GuidanceTimer(i) /\ ~isFirstVisit /\ timers[i].arg \in GuidedSteps)
            => ~Truthy(getItem(GuidanceKey(timers[i].arg)))]_vars

\* ------------------------------------------------------------------------
\* Agent tips
\* ------------------------------------------------------------------------
\* C21: a tip stays active until its own 5 s timer fires or the user closes
\* it: a timer callback that hides the displayed tip is the callback that
\* the showAgentTip call of this very tip registered, never the one of an
\* earlier tip.
C21_TipHiddenByOwnTimerOnly ==
    [][\A i \in 1..Len(timers) :
         (TipTimer(i) /\ agentTip.active) => timers[i].arg = agentTip.seq]_vars

\* ------------------------------------------------------------------------
\* switchView
\* ------------------------------------------------------------------------
\* the entries of the titles object
Titled == {"dashboard", "create", "configure", "metrics", "tprompt"}

\* the steps that call switchView(view) and nothing else that moves the view
Switches(view) ==
    \/ NavClick(view)
    \/ view = "configure" /\ editAgent(2)
    \/ view = "playground" /\ (\E id \in EditIds : evaluateAgent(id))
    \/ view = "playground" /\ handleLifecycleStep("evaluate")

\* C22: switchView(v) for a view v whose panel exists makes v the only
\* active view: currentView is v, v's panel is the only active panel, no
\* nav link but v's is active and none at all for 'configure', and the page
\* title is the one mapped to v, or 'Dashboard' when v has no title entry.
C22_SwitchViewMakesViewActive ==
    [][\A view \in ViewArgs :
         (Switches(view) /\ view \in domViews) =>
            /\ ~last'.threw
            /\ currentView' = view
            /\ activePanels' = {view}
            /\ activeNav' \subseteq {view}
            /\ view = "configure" => activeNav' = {}
            /\ view \in Titled => pageTitle' = TitleOf(view)
            /\ view \notin Titled => pageTitle' = "Dashboard"]_vars

C22_Witness ==
    /\ last.op = "evaluateAgent"
    /\ ~last.threw
    /\ "playground" \in domViews
    /\ currentView = "playground"
    /\ activePanels = {"playground"}
    /\ activeNav = {}
    /\ pageTitle = "Dashboard"

\* C23: switchView with a view that has no panel element throws after the
\* nav links and the panels have lost 'active': no panel is active
\* afterwards, no nav link of another view is, and currentView and the page
\* title are those of the previous view.  'playground' is such a view on a
\* page without playground panel: the 'evaluate' step maps to it,
\* evaluateAgent passes it, and it has no title entry.
C23_FailedSwitchLeavesNoPanelActive ==
    [][\A view \in ViewArgs :
         (Switches(view) /\ view \notin domViews) =>
            /\ view = "playground"
            /\ StepView("evaluate") = view
            /\ view \notin Titled
            /\ last'.threw
            /\ activePanels' = {}
            /\ activeNav' \subseteq {view}
            /\ currentView' = currentView
            /\ pageTitle' = pageTitle]_vars

C23_Witness ==
    /\ last.op = "handleLifecycleStep"
    /\ last.threw
    /\ "playground" \notin domViews
    /\ activePanels = {}
    /\ activeNav = {}
    /\ currentView = "metrics"
    /\ pageTitle = "Performance Metrics"

====
